---- MODULE Spec2Model ----
(***************************************************************************)
(* Fashion-product ETL pipeline: the chunked parallel scraper              *)
(* (utils/extract.py), the field normalisers and the table cleaner         *)
(* (utils/transform.py), the load-stage validation (utils/load.py) and the *)
(* driver (main.py).                                                       *)
(*                                                                         *)
(* Text is a sequence of one-character strings, so that replace, strip,    *)
(* split, isdigit and float() are computed character by character.         *)
(* A cell of a table is a record [t, n, s]: t is "null" (None / NaN / NA), *)
(* "str" (s holds the text), "float" (n holds the value in hundredths) or  *)
(* "int" (n holds the value).                                              *)
(***************************************************************************)
EXTENDS Integers, Sequences, FiniteSets, TLC

VARIABLES
    pc,               \* position of the driver / of the specification's run
    config,           \* ScraperConfig: NUM_PAGES, MAX_WORKERS, CHUNK_SIZE
    site,             \* what each page of the catalog answers
    chunks,           \* scrape: the page chunks
    futures,          \* scrape: one future per chunk, running scrape_chunk
    fetched,          \* how many times each page was requested
    yielded,          \* scrape: the futures as_completed has handed over
    all_products,     \* scrape: the merged raw records
    df_raw,           \* main.py df_raw: the raw table
    df_transformed,   \* main.py df_transformed: the cleaned table
    df_twice,         \* the cleaner applied to its own output
    valid,            \* result of DataLoader.validate_dataframe
    raw_csv,          \* products_raw.csv
    csv_file,         \* products_cleaned.csv
    sheet,            \* the worksheet 'Cleaned Data'
    db_table,         \* the table 'products'
    calls,            \* the loaders called so far, in order
    csv_success,      \* main.py csv_success
    sheets_success,   \* main.py sheets_success
    postgres_success, \* main.py postgres_success
    result            \* what run_etl_pipeline returned

scrapeVars == <<config, site, chunks, futures, fetched, yielded, all_products>>
tableVars == <<df_raw, df_transformed, df_twice, valid>>
loadVars ==
    <<raw_csv, csv_file, sheet, db_table, calls, csv_success, sheets_success,
      postgres_success, result>>

vars == <<pc, scrapeVars, tableVars, loadVars>>

----------------------------------------------------------------------------
(* Cells *)

Null == [t |-> "null", n |-> 0, s |-> <<>>]
Str(s) == [t |-> "str", n |-> 0, s |-> s]
Float(n) == [t |-> "float", n |-> n, s |-> <<>>]
IntV(n) == [t |-> "int", n |-> n, s |-> <<>>]

\* pd.isna on a scalar
isna(v) == v.t = "null"

----------------------------------------------------------------------------
(* Python str methods, character by character *)

Digits == <<"0", "1", "2", "3", "4", "5", "6", "7", "8", "9">>

IsDigitChar(c) == \E i \in 1..10 : Digits[i] = c

DigitVal(c) == (CHOOSE i \in 1..10 : Digits[i] = c) - 1

IsSpace(c) == c = " "

IsPrefix(p, s) == Len(p) <= Len(s) /\ SubSeq(s, 1, Len(p)) = p

\* pat in s
RECURSIVE Contains(_, _)
Contains(s, pat) ==
    IF Len(s) < Len(pat) THEN FALSE
    ELSE IsPrefix(pat, s) \/ Contains(Tail(s), pat)

\* s.replace(pat, ''): every non-overlapping occurrence, left to right
RECURSIVE Remove(_, _)
Remove(s, pat) ==
    IF s = <<>> THEN <<>>
    ELSE IF IsPrefix(pat, s) THEN Remove(SubSeq(s, Len(pat) + 1, Len(s)), pat)
    ELSE <<Head(s)>> \o Remove(Tail(s), pat)

RECURSIVE LStrip(_)
LStrip(s) == IF s # <<>> /\ IsSpace(Head(s)) THEN LStrip(Tail(s)) ELSE s

RECURSIVE RStrip(_)
RStrip(s) ==
    IF s # <<>> /\ IsSpace(s[Len(s)]) THEN RStrip(SubSeq(s, 1, Len(s) - 1)) ELSE s

\* s.strip()
Strip(s) == RStrip(LStrip(s))

\* the text before the first occurrence of character c (all of s without one)
RECURSIVE Before(_, _)
Before(s, c) ==
    IF s = <<>> \/ Head(s) = c THEN <<>> ELSE <<Head(s)>> \o Before(Tail(s), c)

\* the text after the first occurrence of character c
RECURSIVE After(_, _)
After(s, c) ==
    IF s = <<>> THEN <<>> ELSE IF Head(s) = c THEN Tail(s) ELSE After(Tail(s), c)

\* the first run of non-space characters of s
RECURSIVE Token(_)
Token(s) ==
    IF s = <<>> \/ IsSpace(Head(s)) THEN <<>> ELSE <<Head(s)>> \o Token(Tail(s))

\* s.split(): has it any part, and its first part
SplitHasPart(s) == LStrip(s) # <<>>
SplitFirst(s) == Token(LStrip(s))

AllDigits(s) == \A i \in 1..Len(s) : IsDigitChar(s[i])

\* s.isdigit()
isdigit(s) == s # <<>> /\ AllDigits(s)

\* int(s) of a digit string
RECURSIVE DigitsVal(_)
DigitsVal(s) ==
    IF s = <<>> THEN 0
    ELSE DigitsVal(SubSeq(s, 1, Len(s) - 1)) * 10 + DigitVal(s[Len(s)])

\* the first two fraction digits, in hundredths
FracVal(f) ==
    IF f = <<>> THEN 0
    ELSE IF Len(f) = 1 THEN DigitVal(f[1]) * 10
    ELSE DigitVal(f[1]) * 10 + DigitVal(f[2])

\* float(s), in hundredths: [ok |-> FALSE] stands for ValueError.  Decimal literals only
\* (sign, digits, point); the input sets hold no exponent, inf or nan text
\* and at most two fraction digits.
ParseFloat(s) ==
    LET b == Strip(s)
        neg == b # <<>> /\ Head(b) = "-"
        u == IF b # <<>> /\ Head(b) \in {"-", "+"} THEN Tail(b) ELSE b
        ip == Before(u, ".")
        fp == After(u, ".")
        shape == /\ AllDigits(ip)
                 /\ AllDigits(fp)
                 /\ Len(ip) + Len(fp) > 0
        mag == DigitsVal(ip) * 100 + FracVal(fp)
    IN  IF shape THEN [ok |-> TRUE, n |-> IF neg THEN 0 - mag ELSE mag]
        ELSE [ok |-> FALSE, n |-> 0]

----------------------------------------------------------------------------
(* utils/transform.py: TransformConfig and the field normalisers *)

EXCHANGE_RATE == 16000

VALID_SIZES ==
    {<<"X", "S">>, <<"S">>, <<"M">>, <<"L">>, <<"X", "L">>, <<"X", "X", "L">>}

VALID_GENDERS ==
    {<<"M", "e", "n">>, <<"W", "o", "m", "e", "n">>,
     <<"U", "n", "i", "s", "e", "x">>}

SizePrefix == <<"S", "i", "z", "e", ":">>
GenderPrefix == <<"G", "e", "n", "d", "e", "r", ":">>
InvalidMark == <<"I", "n", "v", "a", "l", "i", "d">>
NotRatedMark == <<"N", "o", "t", " ", "R", "a", "t", "e", "d">>
UnknownProduct ==
    <<"U", "n", "k", "n", "o", "w", "n", " ", "P", "r", "o", "d", "u", "c", "t">>

\* A cell that is not text has none of the str methods: AttributeError,
\* which every normaliser answers with None.
transform_price(price) ==
    IF isna(price) THEN Null
    ELSE IF price.t # "str" THEN Null
    ELSE LET f == ParseFloat(Strip(Remove(Remove(price.s, <<"$">>), <<",">>)))
         IN  IF f.ok THEN Float(f.n * EXCHANGE_RATE) ELSE Null

\* str(rating) of a number holds neither marker, and the number has no split.
transform_rating(rating) ==
    IF isna(rating) THEN Null
    ELSE IF rating.t # "str" THEN Null
    ELSE IF Contains(rating.s, InvalidMark) \/ Contains(rating.s, NotRatedMark)
    THEN Null
    ELSE LET f == ParseFloat(Strip(Before(rating.s, "/")))
         IN  IF f.ok THEN Float(f.n) ELSE Null

transform_colors(colors) ==
    IF isna(colors) THEN Null
    ELSE IF colors.t # "str" THEN Null
    ELSE IF ~SplitHasPart(colors.s) THEN Null
    ELSE LET num_colors == SplitFirst(colors.s)
         IN  IF isdigit(num_colors) THEN IntV(DigitsVal(num_colors)) ELSE Null

transform_size(size) ==
    IF isna(size) THEN Null
    ELSE IF size.t # "str" THEN Null
    ELSE LET cleaned_size == Strip(Remove(size.s, SizePrefix))
         IN  IF cleaned_size \in VALID_SIZES THEN Str(cleaned_size) ELSE Null

transform_gender(gender) ==
    IF isna(gender) THEN Null
    ELSE IF gender.t # "str" THEN Null
    ELSE LET cleaned_gender == Strip(Remove(gender.s, GenderPrefix))
         IN  IF cleaned_gender \in VALID_GENDERS THEN Str(cleaned_gender) ELSE Null

\* pd.to_datetime of one text: the ISO shapes YYYY-MM-DD, a "T" or a space,
\* HH:MM:SS and an optional fraction; any other text is a ValueError.
IsDateTimeText(s) ==
    /\ Len(s) >= 19
    /\ \A i \in {1, 2, 3, 4, 6, 7, 9, 10, 12, 13, 15, 16, 18, 19} : IsDigitChar(s[i])
    /\ s[5] = "-" /\ s[8] = "-"
    /\ s[11] \in {"T", " "}
    /\ s[14] = ":" /\ s[17] = ":"
    /\ \/ Len(s) = 19
       \/ /\ Len(s) > 20
          /\ s[20] = "."
          /\ AllDigits(SubSeq(s, 21, Len(s)))

\* dt.strftime('%Y-%m-%d %H:%M:%S')
strftime(s) == SubSeq(s, 1, 10) \o <<" ">> \o SubSeq(s, 12, 19)

\* The timestamp cell of every table here is text or null.
transform_timestamp(timestamp) ==
    IF isna(timestamp) THEN Null
    ELSE IF timestamp.t # "str" THEN Null
    ELSE IF IsDateTimeText(timestamp.s) THEN Str(strftime(timestamp.s)) ELSE Null

----------------------------------------------------------------------------
(* utils/transform.py: DataTransformer.transform_dataframe.                *)
(* A table is the sequence of its rows; every row carries the seven        *)
(* columns, as every dict the scraper builds does.                         *)

\* a test that never finds a table empty
NeverEmpty(df) == FALSE

empty(df) == Len(df) = 0

\* lines 97-102: the six apply calls
ApplyTransforms(row) ==
    [Title |-> row.Title,
     Price |-> transform_price(row.Price),
     Rating |-> transform_rating(row.Rating),
     Colors |-> transform_colors(row.Colors),
     Size |-> transform_size(row.Size),
     Gender |-> transform_gender(row.Gender),
     timestamp |-> transform_timestamp(row.timestamp)]

\* a dropna that also requires the timestamp
DropnaSubsetWithTimestamp ==
    {"Title", "Price", "Rating", "Colors", "Size", "Gender", "timestamp"}

\* line 108: dropna(subset=[...]) keeps the rows with none of these null
DropnaSubset == {"Title", "Price", "Rating", "Colors", "Size", "Gender"}

NoNullIn(row) == \A c \in DropnaSubset : ~isna(row[c])

\* line 111
NotUnknown(row) == row.Title # Str(UnknownProduct)

\* drop_duplicates(keep='last')
RECURSIVE drop_duplicates_keep_last(_)
drop_duplicates_keep_last(df) ==
    IF df = <<>> THEN <<>>
    ELSE IF \E i \in 2..Len(df) : df[i] = Head(df)
         THEN drop_duplicates_keep_last(Tail(df))
         ELSE <<Head(df)>> \o drop_duplicates_keep_last(Tail(df))

\* line 115: drop_duplicates() keeps the first of each group of equal rows
RECURSIVE drop_duplicates(_)
drop_duplicates(df) ==
    IF df = <<>> THEN <<>>
    ELSE LET init == SubSeq(df, 1, Len(df) - 1)
             last == df[Len(df)]
         IN  IF \E i \in 1..Len(init) : init[i] = last
             THEN drop_duplicates(init)
             ELSE Append(drop_duplicates(init), last)

\* lines 120-128: astype; NaN-free numeric columns keep their values
AsTypeCell(v, kind) == IF isna(v) THEN Null ELSE [v EXCEPT !.t = kind]

AsType(row) ==
    [Title |-> row.Title,
     Price |-> AsTypeCell(row.Price, "float"),
     Rating |-> AsTypeCell(row.Rating, "float"),
     Colors |-> AsTypeCell(row.Colors, "int"),
     Size |-> row.Size,
     Gender |-> row.Gender,
     timestamp |-> AsTypeCell(row.timestamp, "str")]

transform_dataframe(df) ==
    IF empty(df) THEN <<>>
    ELSE LET applied == [i \in 1..Len(df) |-> ApplyTransforms(df[i])]
             after_null == SelectSeq(applied, NoNullIn)
             after_unknown == SelectSeq(after_null, NotUnknown)
             deduped == drop_duplicates(after_unknown)
         IN  [i \in 1..Len(deduped) |-> AsType(deduped[i])]

----------------------------------------------------------------------------
(* utils/load.py: DataLoader.validate_dataframe *)

valid_sizes ==
    {<<"X", "S">>, <<"S">>, <<"M">>, <<"L">>, <<"X", "L">>, <<"X", "X", "L">>}

valid_genders ==
    {<<"M", "e", "n">>, <<"W", "o", "m", "e", "n">>,
     <<"U", "n", "i", "s", "e", "x">>}

\* a numeric cell in hundredths
Hundredths(v) == IF v.t = "int" THEN v.n * 100 ELSE v.n

IsNumber(v) == v.t \in {"float", "int"}

\* comparing a text cell with a number raises TypeError, caught at line 92
ComparisonRaises(df) ==
    \E i \in 1..Len(df) : \E c \in {"Price", "Rating",
            "Colors"} : df[i][c].t = "str"

\* a comparison with NaN is False
EmptyTitles(df) ==
    \E i \in 1..Len(df) : isna(df[i].Title) \/ df[i].Title = Str(<<>>)
InvalidPrices(df) ==
    \E i \in 1..Len(df) : IsNumber(df[i].Price) /\ Hundredths(df[i].Price) <= 0
InvalidRatings(df) ==
    \E i \in 1..Len(df) :
        /\ IsNumber(df[i].Rating)
        /\ Hundredths(df[i].Rating) < 0 \/ Hundredths(df[i].Rating) > 5 * 100
InvalidColors(df) ==
    \E i \in 1..Len(df) : IsNumber(df[i].Colors) /\ Hundredths(df[i].Colors) <= 0
isin(v, values) == v.t = "str" /\ v.s \in values
InvalidSizes(df) == \E i \in 1..Len(df) : ~isin(df[i].Size, valid_sizes)
InvalidGenders(df) == \E i \in 1..Len(df) : ~isin(df[i].Gender, valid_genders)

\* pd.to_datetime(column): a null cell becomes NaT, an unparseable text raises
InvalidTimestamps(df) ==
    \E i \in 1..Len(df) :
        df[i].timestamp.t = "str" /\ ~IsDateTimeText(df[i].timestamp.s)

validate_dataframe(df) ==
    IF empty(df) THEN FALSE
    ELSE IF EmptyTitles(df) THEN FALSE
    ELSE IF ComparisonRaises(df) THEN FALSE
    ELSE IF InvalidPrices(df) THEN FALSE
    ELSE IF InvalidRatings(df) THEN FALSE
    ELSE IF InvalidColors(df) THEN FALSE
    ELSE IF InvalidSizes(df) THEN FALSE
    ELSE IF InvalidGenders(df) THEN FALSE
    ELSE IF InvalidTimestamps(df) THEN FALSE
    ELSE TRUE

----------------------------------------------------------------------------
(* Raw records: the dicts ProductScraper.extract_product_details builds.   *)
(* Title and Price are the stripped element texts or None; Rating is the   *)
(* text left of "/" without the star and the "Rating:" label; Colors, Size *)
(* and Gender are the whole paragraph texts; timestamp is                  *)
(* datetime.now().isoformat().                                             *)

TxtTsA ==
    <<"2", "0", "2", "4", "-", "0", "5", "-", "0", "1", "T", "1", "0", ":",
    "0", "0", ":", "0", "0", ".", "1", "2", "3", "4", "5", "6">>
TxtTsSameSecond ==
    <<"2", "0", "2", "4", "-", "0", "5", "-", "0", "1", "T", "1", "0", ":",
    "0", "0", ":", "0", "0", ".", "6", "5", "4", "3", "2", "1">>
TxtTsWhole ==
    <<"2", "0", "2", "4", "-", "0", "5", "-", "0", "1", "T", "1", "0", ":",
    "0", "0", ":", "0", "1">>
TxtTsBad ==
    <<"n", "/", "a">>
TxtHoodie ==
    <<"H", "o", "o", "d", "i", "e", " ", "3">>
TxtPants ==
    <<"P", "a", "n", "t", "s", " ", "4">>
TxtPrice1250 ==
    <<"$", "1", "2", ".", "5", "0">>
TxtPriceComma ==
    <<"$", "1", ",", "2", "5", "0", ".", "0", "0">>
TxtPriceUnavailable ==
    <<"P", "r", "i", "c", "e", " ", "U", "n", "a", "v", "a", "i", "l", "a",
    "b", "l", "e">>
TxtPriceZero ==
    <<"$", "0", ".", "0", "0">>
TxtRating45 ==
    <<"4", ".", "5">>
TxtRating39of5 ==
    <<"3", ".", "9", " ", "/", " ", "5">>
TxtRatingInvalid ==
    <<"I", "n", "v", "a", "l", "i", "d", " ", "R", "a", "t", "i", "n", "g">>
TxtNotRated ==
    <<"N", "o", "t", " ", "R", "a", "t", "e", "d">>
TxtRating70 ==
    <<"7", ".", "0">>
TxtColors3 ==
    <<"3", " ", "C", "o", "l", "o", "r", "s">>
TxtColors5 ==
    <<"5", " ", "C", "o", "l", "o", "r", "s">>
TxtColorsNoCount ==
    <<"C", "o", "l", "o", "r", "s">>
TxtSizeM ==
    <<"S", "i", "z", "e", ":", " ", "M">>
TxtSizeXL ==
    <<"S", "i", "z", "e", ":", " ", "X", "L">>
TxtSizeXXXL ==
    <<"S", "i", "z", "e", ":", " ", "X", "X", "X", "L">>
TxtGenderMen ==
    <<"G", "e", "n", "d", "e", "r", ":", " ", "M", "e", "n">>
TxtGenderWomen ==
    <<"G", "e", "n", "d", "e", "r", ":", " ", "W", "o", "m", "e", "n">>

TsA == Str(TxtTsA)
TsSameSecond == Str(TxtTsSameSecond)
TsWhole == Str(TxtTsWhole)
TsBad == Str(TxtTsBad)

Card(title, price, rating, colors, size, gender) ==
    [Title |-> title, Price |-> price, Rating |-> rating,
     Colors |-> colors, Size |-> size, Gender |-> gender]

\* extract.py line 71: product_info['timestamp'] = datetime.now().isoformat()
Stamp(card, ts) ==
    [Title |-> card.Title, Price |-> card.Price, Rating |-> card.Rating,
     Colors |-> card.Colors, Size |-> card.Size, Gender |-> card.Gender,
     timestamp |-> ts]

CardHoodie ==
    Card(Str(TxtHoodie), Str(TxtPrice1250), Str(TxtRating45),
         Str(TxtColors3), Str(TxtSizeM), Str(TxtGenderMen))
CardPants ==
    Card(Str(TxtPants), Str(TxtPriceComma), Str(TxtRating39of5),
         Str(TxtColors5), Str(TxtSizeXL), Str(TxtGenderWomen))
CardUnknown == [CardHoodie EXCEPT !.Title = Str(UnknownProduct)]
CardNoTitle == [CardHoodie EXCEPT !.Title = Null]
CardNoPrice == [CardHoodie EXCEPT !.Price = Null]
CardPriceUnavailable == [CardHoodie EXCEPT !.Price = Str(TxtPriceUnavailable)]
CardFree == [CardHoodie EXCEPT !.Price = Str(TxtPriceZero)]
CardInvalidRating == [CardHoodie EXCEPT !.Rating = Str(TxtRatingInvalid)]
CardNotRated == [CardHoodie EXCEPT !.Rating = Str(TxtNotRated)]
CardRating7 == [CardHoodie EXCEPT !.Rating = Str(TxtRating70)]
CardNoColorCount == [CardHoodie EXCEPT !.Colors = Str(TxtColorsNoCount)]
CardSizeXXXL == [CardHoodie EXCEPT !.Size = Str(TxtSizeXXXL)]
CardNoGender == [CardHoodie EXCEPT !.Gender = Null]

----------------------------------------------------------------------------
(* The state before anything ran *)

\* a file, worksheet or table nothing was written to
Untouched == [written |-> FALSE, rows |-> <<>>]
Written(df) == [written |-> TRUE, rows |-> df]

NoConfig == [NUM_PAGES |-> 0, MAX_WORKERS |-> 0, CHUNK_SIZE |-> 0]

NoScrape ==
    /\ config = NoConfig
    /\ site = <<>>
    /\ chunks = <<>>
    /\ futures = <<>>
    /\ fetched = <<>>
    /\ yielded = {}
    /\ all_products = <<>>

NoTables ==
    /\ df_raw = <<>>
    /\ df_transformed = <<>>
    /\ df_twice = <<>>
    /\ valid = FALSE

NoLoad ==
    /\ raw_csv = Untouched
    /\ csv_file = Untouched
    /\ sheet = Untouched
    /\ db_table = Untouched
    /\ calls = <<>>
    /\ csv_success = "unset"
    /\ sheets_success = "unset"
    /\ postgres_success = "unset"
    /\ result = "none"

----------------------------------------------------------------------------
(* The cleaner on every raw table of up to MaxRows records: SpecTransform  *)

MaxRows == 3

OtherCards ==
    {CardUnknown, CardNoTitle, CardNoPrice, CardPriceUnavailable, CardFree,
     CardInvalidRating, CardNotRated, CardRating7, CardNoColorCount,
     CardSizeXXXL, CardNoGender}

RawRecords ==
    {Stamp(CardHoodie, TsA), Stamp(CardHoodie, TsSameSecond),
     Stamp(CardHoodie, TsBad), Stamp(CardPants, TsWhole)}
    \cup {Stamp(c, TsA) : c \in OtherCards}

RawTables == UNION {[1..n -> RawRecords] : n \in 0..MaxRows}

XInit ==
    /\ pc = "x_raw"
    /\ df_raw \in RawTables
    /\ df_transformed = <<>>
    /\ df_twice = <<>>
    /\ valid = FALSE
    /\ NoScrape
    /\ NoLoad

\* transformer.transform_dataframe(df_raw)
Clean ==
    /\ pc = "x_raw"
    /\ df_transformed' = transform_dataframe(df_raw)
    /\ pc' = "x_cleaned"
    /\ UNCHANGED <<df_raw, df_twice, valid, scrapeVars, loadVars>>

\* the cleaner on its own output
CleanAgain ==
    /\ pc = "x_cleaned"
    /\ df_twice' = transform_dataframe(df_transformed)
    /\ pc' = "x_twice"
    /\ UNCHANGED <<df_raw, df_transformed, valid, scrapeVars, loadVars>>

\* loader.validate_dataframe(df_transformed)
Validate ==
    /\ pc = "x_twice"
    /\ valid' = validate_dataframe(df_transformed)
    /\ pc' = "x_validated"
    /\ UNCHANGED <<df_raw, df_transformed, df_twice, scrapeVars, loadVars>>

XNext == Clean \/ CleanAgain \/ Validate

SpecTransform == XInit /\ [][XNext]_vars

----------------------------------------------------------------------------
(* Claims about the cleaner, under SpecTransform *)

Cleaned == pc \in {"x_cleaned", "x_twice", "x_validated"}

Rows(df) == {df[i] : i \in 1..Len(df)}

CanonicalTimestamp(v) ==
    v.t = "str" /\ Len(v.s) = 19 /\ IsDateTimeText(v.s) /\ v.s[11] = " "

\* a clean record within its declared domain
InDomain(row) ==
    /\ row.Title.t = "str" /\ row.Title.s # <<>>
    /\ row.Price.t = "float" /\ row.Price.n > 0
    /\ row.Rating.t = "float" /\ row.Rating.n >= 0 /\ row.Rating.n <= 5 * 100
    /\ row.Colors.t = "int" /\ row.Colors.n > 0
    /\ row.Size.t = "str" /\ row.Size.s \in VALID_SIZES
    /\ row.Gender.t = "str" /\ row.Gender.s \in VALID_GENDERS
    /\ CanonicalTimestamp(row.timestamp)

\* C5: every row of the table transform_dataframe returns has all seven
\* fields present and in domain (non-empty title, price > 0, 0 <= rating <= 5,
\* colors > 0, size and gender in their enums, a canonical timestamp), and a
\* non-empty cleaned table passes validate_dataframe.
C5_OutputInDomain ==
    /\ Cleaned => \A row \in Rows(df_transformed) : InDomain(row)
    /\ pc = "x_validated" /\ ~empty(df_transformed) => valid = TRUE

\* C7: the cleaner applied to its own output returns that same table.
C7_Idempotent ==
    pc \in {"x_twice", "x_validated"} => df_twice = df_transformed

\* the normalized, typed form of a raw record
Norm(r) == AsType(ApplyTransforms(r))

\* step 2 and step 3 of the cleaner on one raw record
Passes(r) ==
    /\ ~isna(r.Title)
    /\ r.Title # Str(UnknownProduct)
    /\ ~isna(transform_price(r.Price))
    /\ ~isna(transform_rating(r.Rating))
    /\ ~isna(transform_colors(r.Colors))
    /\ ~isna(transform_size(r.Size))
    /\ ~isna(transform_gender(r.Gender))

\* the normalized records of the raw table, position by position
NormOfRaw == [i \in 1..Len(df_raw) |-> Norm(df_raw[i])]

Surviving == {i \in 1..Len(df_raw) : Passes(df_raw[i])}

\* the first position in surv whose normalized record is row
FirstIdx(norm, surv, row) ==
    CHOOSE i \in surv :
        /\ norm[i] = row
        /\ \A j \in surv : norm[j] = row => i <= j

\* C8: the cleaned table has no two identical rows; each row is the first
\* occurrence, in input order, of its group of identical normalized records,
\* every group is kept, and the rows keep their input order.
C8_DedupKeepsFirstInOrder ==
    pc = "x_cleaned" =>
        LET norm == NormOfRaw
            surv == Surviving
            first == [k \in 1..Len(df_transformed) |->
                         FirstIdx(norm, surv, df_transformed[k])]
        IN  /\ \A k, l \in 1..Len(df_transformed) :
                   k # l => df_transformed[k] # df_transformed[l]
            /\ \A k \in 1..Len(df_transformed) :
                   \E i \in surv : norm[i] = df_transformed[k]
            /\ \A i \in surv : norm[i] \in Rows(df_transformed)
            /\ \A k, l \in 1..Len(df_transformed) : k < l => first[k] < first[l]

\* duplicates on both sides of another record were cleaned
C8_Witness ==
    /\ pc = "x_cleaned"
    /\ Len(df_raw) = 3
    /\ Len(df_transformed) = 2
    /\ Surviving = {1, 2, 3}
    /\ Norm(df_raw[1]) = Norm(df_raw[3])
    /\ df_raw[1] # df_raw[3]

\* C9: a raw record is represented in the cleaned table if and only if its
\* title is non-null and not "Unknown Product" and its price, rating,
\* colors, size and gender normalize to non-null values; a null timestamp
\* does not drop it.
C9_FilterIff ==
    pc = "x_cleaned" =>
        \A i \in 1..Len(df_raw) :
            Norm(df_raw[i]) \in Rows(df_transformed) <=> Passes(df_raw[i])

\* a record with a null timestamp was kept beside one that was dropped
C9_Witness ==
    /\ pc = "x_cleaned"
    /\ \E row \in Rows(df_transformed) : isna(row.timestamp)
    /\ \E i \in 1..Len(df_raw) : ~Passes(df_raw[i])

----------------------------------------------------------------------------
(* utils/extract.py: ScraperConfig and the chunks of ProductScraper.scrape *)

Min(a, b) == IF a <= b THEN a ELSE b

\* NUM_PAGES // MAX_WORKERS + 1, whatever the remainder
ChunkSizePlusOne(num_pages, max_workers) == (num_pages \div max_workers) + 1

\* line 27: NUM_PAGES // MAX_WORKERS + (NUM_PAGES % MAX_WORKERS > 0)
ChunkSize(num_pages, max_workers) ==
    (num_pages \div max_workers) + (IF num_pages % max_workers > 0 THEN 1 ELSE 0)

ScraperConfig(num_pages, max_workers) ==
    [NUM_PAGES |-> num_pages,
     MAX_WORKERS |-> max_workers,
     CHUNK_SIZE |-> ChunkSize(num_pages, max_workers)]

\* range(start, stop, step) for a step >= 1, which CHUNK_SIZE is whenever
\* NUM_PAGES >= 1 and MAX_WORKERS >= 1
RECURSIVE range(_, _, _)
range(start, stop, step) ==
    IF step < 1 \/ start >= stop THEN <<>>
    ELSE <<start>> \o range(start + step, stop, step)

\* seq[i:j - 1]
SliceShort(seq, i, j) == SubSeq(seq, i + 1, Min(j - 1, Len(seq)))

\* seq[i:j]
Slice(seq, i, j) == SubSeq(seq, i + 1, Min(j, Len(seq)))

\* line 162: list(range(1, NUM_PAGES + 1))
Pages(cfg) == [i \in 1..cfg.NUM_PAGES |-> i]

\* lines 163-164
Chunks(cfg) ==
    LET pages == Pages(cfg)
        starts == range(0, Len(pages), cfg.CHUNK_SIZE)
    IN  [k \in 1..Len(starts) |->
            Slice(pages, starts[k], starts[k] + cfg.CHUNK_SIZE)]

----------------------------------------------------------------------------
(* The chunks of every configuration up to the bounds: SpecChunks *)

MaxNumPages == 50
MaxNumWorkers == 12

CInit ==
    /\ pc = "c_config"
    /\ \E n \in 1..MaxNumPages, w \in 1..MaxNumWorkers :
           config = ScraperConfig(n, w)
    /\ site = <<>>
    /\ chunks = <<>>
    /\ futures = <<>>
    /\ fetched = <<>>
    /\ yielded = {}
    /\ all_products = <<>>
    /\ NoTables
    /\ NoLoad

\* scrape, lines 162-164
Partition ==
    /\ pc = "c_config"
    /\ chunks' = Chunks(config)
    /\ pc' = "c_chunked"
    /\ UNCHANGED <<config, site, futures, fetched, yielded, all_products,
                   tableVars, loadVars>>

CNext == Partition

SpecChunks == CInit /\ [][CNext]_vars

\* the least c with c * d >= n
Ceil(n, d) == CHOOSE c \in 0..n : c * d >= n /\ (c - 1) * d < n

\* the places of page p in the chunks
Places(p) ==
    {<<k, i>> \in (1..Len(chunks)) \X (1..config.NUM_PAGES) :
        i <= Len(chunks[k]) /\ chunks[k][i] = p}

\* C1: the chunks partition 1..NUM_PAGES contiguously and exhaustively:
\* every page is in exactly one chunk, each chunk is a non-empty ascending
\* run of consecutive pages that continues the chunk before it, and every
\* chunk but the last has exactly ceil(NUM_PAGES / MAX_WORKERS) pages.
C1_ChunksPartition ==
    pc = "c_chunked" =>
        /\ \A p \in 1..config.NUM_PAGES : Cardinality(Places(p)) = 1
        /\ \A k \in 1..Len(chunks) :
               /\ Len(chunks[k]) >= 1
               /\ \A i \in 1..Len(chunks[k]) : chunks[k][i] \in 1..config.NUM_PAGES
               /\ \A i \in 1..(Len(chunks[k]) - 1) :
                      chunks[k][i + 1] = chunks[k][i] + 1
        /\ \A k \in 1..(Len(chunks) - 1) :
               /\ chunks[k + 1][1] = chunks[k][Len(chunks[k])] + 1
               /\ Len(chunks[k]) = Ceil(config.NUM_PAGES, config.MAX_WORKERS)

\* several chunks, the last one shorter
C1_Witness ==
    /\ pc = "c_chunked"
    /\ Len(chunks) >= 3
    /\ Len(chunks[Len(chunks)]) < Len(chunks[1])

\* C2 as stated: scrape builds exactly MAX_WORKERS chunks.
C2_ExactlyMaxWorkersChunks ==
    pc = "c_chunked" => Len(chunks) = config.MAX_WORKERS

\* C2 amended: scrape builds exactly ceil(NUM_PAGES / CHUNK_SIZE) chunks,
\* with CHUNK_SIZE = ceil(NUM_PAGES / MAX_WORKERS); that is at most
\* MAX_WORKERS, and exactly MAX_WORKERS when MAX_WORKERS divides NUM_PAGES.
C2_ChunkCount ==
    pc = "c_chunked" =>
        /\ Len(chunks) =
               Ceil(config.NUM_PAGES, Ceil(config.NUM_PAGES, config.MAX_WORKERS))
        /\ Len(chunks) <= config.MAX_WORKERS
        /\ config.NUM_PAGES % config.MAX_WORKERS = 0 =>
               Len(chunks) = config.MAX_WORKERS

\* 50 pages and 10 workers: 10 chunks of 5 pages each
C2_Witness ==
    /\ pc = "c_chunked"
    /\ config.NUM_PAGES = 50
    /\ config.MAX_WORKERS = 10
    /\ Len(chunks) = 10
    /\ \A k \in 1..10 : Len(chunks[k]) = 5

----------------------------------------------------------------------------
(* utils/extract.py: one page *)

\* session.get or raise_for_status raises
HttpError == [kind |-> "error", cards |-> <<>>]
\* the markup has no div#collectionList
NoGrid == [kind |-> "no_grid", cards |-> <<>>]
\* the markup holds these product cards
Grid(cards) == [kind |-> "grid", cards |-> cards]

PageAnswers ==
    {HttpError, NoGrid, Grid(<<CardHoodie>>), Grid(<<CardNoPrice>>),
     Grid(<<CardHoodie, CardFree>>)}

\* the readings of datetime.now() during a run
NowTexts == {TsA, TsSameSecond}

\* lines 140-155
process_page_content(answer, now) ==
    IF answer.kind = "no_grid" THEN <<>>
    ELSE [i \in 1..Len(answer.cards) |-> Stamp(answer.cards[i], now)]

\* lines 122-138: any exception is logged and answered with []
scrape_single_page(answer, now) ==
    IF answer.kind = "error" THEN <<>> ELSE process_page_content(answer, now)

\* products = page_products
assign(products, page_products) == page_products

\* line 119: products.extend(...)
extend(products, page_products) == products \o page_products

\* the loop of scrape_chunk left at the first page that fails
StateAfterBreakOnError(chunk, next, answer) ==
    IF next = Len(chunk) \/ answer.kind = "error" THEN "finished" ELSE "running"

\* lines 118-120: the loop goes on to the next page, whatever this one gave,
\* and the task returns after the last
StateAfter(chunk, next, answer) ==
    IF next = Len(chunk) THEN "finished" ELSE "running"

----------------------------------------------------------------------------
(* main.py run_etl_pipeline with ProductScraper.scrape: Spec.              *)
(* run_etl_pipeline builds ScraperConfig() with its defaults; the model    *)
(* draws NUM_PAGES and MAX_WORKERS from 1..MaxPages and 1..MaxWorkers.     *)

MaxPages == 3
MaxWorkers == 2

NewFuture == [state |-> "pending", next |-> 1, products |-> <<>>]

Running == {k \in 1..Len(futures) : futures[k].state = "running"}

Init ==
    /\ pc = "start"
    /\ \E n \in 1..MaxPages, w \in 1..MaxWorkers :
           /\ config = ScraperConfig(n, w)
           /\ site \in [1..n -> PageAnswers]
           /\ fetched = [p \in 1..n |-> 0]
    /\ chunks = <<>>
    /\ futures = <<>>
    /\ yielded = {}
    /\ all_products = <<>>
    /\ NoTables
    /\ NoLoad

\* scrape, lines 159-170: the chunks, and one submitted task per chunk
StartScrape ==
    /\ pc = "start"
    /\ chunks' = Chunks(config)
    /\ futures' = [k \in 1..Len(chunks') |-> NewFuture]
    /\ all_products' = <<>>
    /\ pc' = "scraping"
    /\ UNCHANGED <<config, site, fetched, yielded, tableVars, loadVars>>

\* scrape_chunk, lines 116-120: a pool thread (at most MAX_WORKERS of them)
\* requests the next page of its chunk
ScrapePage(k) ==
    /\ pc = "scraping"
    /\ \/ futures[k].state = "running"
       \/ futures[k].state = "pending" /\ Cardinality(Running) < config.MAX_WORKERS
    /\ LET f == futures[k]
           page == chunks[k][f.next]
       IN  /\ \E now \in NowTexts :
                  futures' =
                      [futures EXCEPT
                          ![k] = [state |-> StateAfter(chunks[k], f.next, site[page]),
                                  next |-> f.next + 1,
                                  products |->
                                      extend(f.products,
                                             scrape_single_page(site[page], now))]]
           /\ fetched' = [fetched EXCEPT ![page] = @ + 1]
    /\ UNCHANGED <<pc, config, site, chunks, yielded, all_products, tableVars,
                   loadVars>>

\* a caller that reads a task's list without waiting for the task
HandoverBeforeFinish(k) == k \notin yielded

\* line 172: as_completed hands over each future once, after it finished
Handover(k) == futures[k].state = "finished" /\ k \notin yielded

\* scrape, lines 172-177: as_completed hands over a finished future and the
\* caller extends all_products with its result.  scrape_chunk has no
\* statement that raises outside _scrape_single_page's try, so result()
\* returns.
MergeChunk(k) ==
    /\ pc = "scraping"
    /\ Handover(k)
    /\ all_products' = extend(all_products, futures[k].products)
    /\ yielded' = yielded \cup {k}
    /\ UNCHANGED <<pc, config, site, chunks, futures, fetched, tableVars,
                   loadVars>>

\* scrape, line 186: every future was handed over and the pool has shut down
ReturnScrape ==
    /\ pc = "scraping"
    /\ yielded = 1..Len(futures)
    /\ df_raw' = all_products
    /\ pc' = "scraped"
    /\ UNCHANGED <<scrapeVars, df_transformed, df_twice, valid, loadVars>>

\* a test that lets an empty cleaned table through
AlwaysSomeValidData(df) == FALSE

\* main.py line 41: df_transformed.empty
NoValidData(df) == empty(df)

Return(value) ==
    /\ result' = value
    /\ pc' = "done"

\* main.py lines 28-33: df_raw.to_csv may raise, which line 72 catches
CheckRaw ==
    /\ pc = "scraped"
    /\ IF empty(df_raw)
       THEN Return(FALSE) /\ UNCHANGED raw_csv
       ELSE \E write_ok \in BOOLEAN :
                IF write_ok
                THEN /\ raw_csv' = Written(df_raw)
                     /\ pc' = "transform"
                     /\ UNCHANGED result
                ELSE Return(FALSE) /\ UNCHANGED raw_csv
    /\ UNCHANGED <<scrapeVars, tableVars, csv_file, sheet, db_table, calls,
                   csv_success, sheets_success, postgres_success>>

\* main.py lines 40-45
TransformStep ==
    /\ pc = "transform"
    /\ df_transformed' = transform_dataframe(df_raw)
    /\ IF NoValidData(df_transformed')
       THEN Return(FALSE)
       ELSE pc' = "load_csv" /\ UNCHANGED result
    /\ UNCHANGED <<scrapeVars, df_raw, df_twice, valid, raw_csv, csv_file,
                   sheet, db_table, calls, csv_success, sheets_success,
                   postgres_success>>

\* load.py lines 98-113: to_csv may raise
LoadCsv ==
    /\ pc = "load_csv"
    /\ calls' = Append(calls, "load_to_csv")
    /\ IF ~validate_dataframe(df_transformed)
       THEN csv_success' = FALSE /\ UNCHANGED csv_file
       ELSE \E write_ok \in BOOLEAN :
                IF write_ok
                THEN csv_file' = Written(df_transformed) /\ csv_success' = TRUE
                ELSE csv_success' = FALSE /\ UNCHANGED csv_file
    /\ pc' = "load_sheets"
    /\ UNCHANGED <<scrapeVars, tableVars, raw_csv, sheet, db_table,
                   sheets_success, postgres_success, result>>

\* what the spreadsheet service and the credentials file do to one call
SheetsOutcomes == {"no_credentials", "open_error", "update_error", "ok"}

\* load.py lines 115-175: no validate_dataframe here; the worksheet is
\* cleared before it is updated
LoadSheets ==
    /\ pc = "load_sheets"
    /\ calls' = Append(calls, "load_to_google_sheets")
    /\ \E outcome \in SheetsOutcomes :
           /\ sheet' = CASE outcome = "ok" -> Written(df_transformed)
                         [] outcome = "update_error" -> Written(<<>>)
                         [] OTHER -> sheet
           /\ sheets_success' = (outcome = "ok")
    /\ pc' = "load_postgres"
    /\ UNCHANGED <<scrapeVars, tableVars, raw_csv, csv_file, db_table,
                   csv_success, postgres_success, result>>

PostgresOutcomes == {"connect_error", "upload_error", "ok"}

\* load.py lines 177-239
LoadPostgres ==
    /\ pc = "load_postgres"
    /\ calls' = Append(calls, "load_to_postgres")
    /\ IF ~validate_dataframe(df_transformed)
       THEN postgres_success' = FALSE /\ UNCHANGED db_table
       ELSE \E outcome \in PostgresOutcomes :
                IF outcome = "ok"
                THEN db_table' = Written(df_transformed) /\ postgres_success' = TRUE
                ELSE postgres_success' = FALSE /\ UNCHANGED db_table
    /\ pc' = "summary"
    /\ UNCHANGED <<scrapeVars, tableVars, raw_csv, csv_file, sheet,
                   csv_success, sheets_success, result>>

\* a summary that is content with one sink
any_of(a, b, c) == a \/ b \/ c

\* main.py line 70: all([csv_success, sheets_success, postgres_success])
all_of(a, b, c) == a /\ b /\ c

\* main.py lines 57-70
Summary ==
    /\ pc = "summary"
    /\ Return(all_of(csv_success, sheets_success, postgres_success))
    /\ UNCHANGED <<scrapeVars, tableVars, raw_csv, csv_file, sheet, db_table,
                   calls, csv_success, sheets_success, postgres_success>>

ScrapeNext ==
    \/ \E k \in 1..Len(futures) : ScrapePage(k)
    \/ \E k \in 1..Len(futures) : MergeChunk(k)
    \/ ReturnScrape

Next ==
    \/ StartScrape
    \/ ScrapeNext
    \/ CheckRaw
    \/ TransformStep
    \/ LoadCsv
    \/ LoadSheets
    \/ LoadPostgres
    \/ Summary

Spec == Init /\ [][Next]_vars

----------------------------------------------------------------------------
(* Claims about the harvest and the driver, under Spec *)

\* the pages that give no records: the request or the parse failed
Failed == {p \in DOMAIN site : site[p].kind \in {"error", "no_grid"}}

Unstamp(r) == Card(r.Title, r.Price, r.Rating, r.Colors, r.Size, r.Gender)

Unstamped(products) == [i \in 1..Len(products) |-> Unstamp(products[i])]

\* the cards of the pages of a chunk that did not fail, in page order
RECURSIVE ChunkCards(_)
ChunkCards(chunk) ==
    IF chunk = <<>> THEN <<>>
    ELSE (IF Head(chunk) \in Failed THEN <<>> ELSE site[Head(chunk)].cards)
         \o ChunkCards(Tail(chunk))

SiteCards == UNION {{a.cards[i] : i \in 1..Len(a.cards)} : a \in PageAnswers}

\* how often card c is in the harvest, and on the pages that did not fail
HarvestCount(c) == Cardinality({i \in 1..Len(df_raw) : Unstamp(df_raw[i]) = c})
SiteCount(c) ==
    Cardinality({pi \in (DOMAIN site) \X (1..2) :
        /\ pi[1] \notin Failed
        /\ pi[2] <= Len(site[pi[1]].cards)
        /\ site[pi[1]].cards[pi[2]] = c})

ScrapeReturned == pc \notin {"start", "scraping"}

\* C3: whatever pages fail and however the workers interleave, each finished
\* chunk task holds exactly the records of its pages that did not fail, the
\* collection scrape returns holds exactly the records of all pages that did
\* not fail, and scrape always has a step to take until it returns.
C3_PartialFailureIsolation ==
    /\ pc = "scraping" => ENABLED ScrapeNext
    /\ \A k \in 1..Len(futures) :
           futures[k].state = "finished" =>
               Unstamped(futures[k].products) = ChunkCards(chunks[k])
    /\ ScrapeReturned =>
           /\ \A c \in SiteCards : HarvestCount(c) = SiteCount(c)
           /\ \A i \in 1..Len(df_raw) : Unstamp(df_raw[i]) \in SiteCards

\* the first page of a chunk failed, a later page of that chunk and another
\* chunk gave records, and scrape returned
C3_Witness ==
    /\ pc = "scraped"
    /\ Len(chunks) >= 2
    /\ \E k \in 1..Len(chunks) :
           /\ Len(chunks[k]) >= 2
           /\ chunks[k][1] \in Failed
           /\ chunks[k][2] \notin Failed
           /\ \E j \in 1..Len(chunks) : j # k /\ futures[j].products # <<>>
    /\ df_raw # <<>>

AllFetchesFail == \A p \in DOMAIN site : site[p].kind = "error"

SinkWritten == csv_file.written \/ sheet.written \/ db_table.written

\* C4: when every page fetch fails, scrape returns an empty collection and
\* run_etl_pipeline returns False right after it, with no loader called and
\* nothing written.
C4_AllFailNoLoad ==
    AllFetchesFail =>
        /\ pc \in {"start", "scraping", "scraped", "done"}
        /\ ScrapeReturned => df_raw = <<>>
        /\ pc = "done" => result = FALSE
        /\ calls = <<>>
        /\ ~SinkWritten

\* a run of several pages, all failing, has ended
C4_Witness ==
    /\ pc = "done"
    /\ AllFetchesFail
    /\ Len(site) >= 2
    /\ \A p \in DOMAIN site : fetched[p] = 1
    /\ result = FALSE

\* C6: a sink (products_cleaned.csv, the worksheet, the table) is written
\* only after the cleaned table was computed and found non-empty, and a run
\* whose harvest or cleaned table is empty ends with no sink written.
C6_NoSinkBeforeCleanTable ==
    /\ SinkWritten \/ calls # <<>> =>
           /\ pc \in {"load_sheets", "load_postgres", "summary", "done"}
           /\ ~empty(df_transformed)
           /\ df_transformed = transform_dataframe(df_raw)
    /\ pc = "done" /\ (empty(df_raw) \/ empty(df_transformed)) =>
           ~SinkWritten /\ calls = <<>>

\* all three sinks hold the cleaned table
C6_Witness ==
    /\ pc = "done"
    /\ csv_file = Written(df_transformed)
    /\ sheet = Written(df_transformed)
    /\ db_table = Written(df_transformed)
    /\ Len(df_transformed) < Len(df_raw)

\* C10: when scrape returns every chunk task has finished and every page was
\* requested exactly once; no page is ever requested twice.
C10_EveryPageFetchedOnce ==
    /\ \A p \in DOMAIN fetched : fetched[p] <= 1
    /\ ScrapeReturned =>
           /\ \A k \in 1..Len(futures) : futures[k].state = "finished"
           /\ Len(futures) = Len(chunks)
           /\ \A p \in 1..config.NUM_PAGES : fetched[p] = 1

\* scrape returned although a request failed in each of two chunks, one of
\* them before the last page of its chunk
C10_Witness ==
    /\ pc = "scraped"
    /\ Len(chunks) >= 2
    /\ \A k \in 1..Len(chunks) : \E i \in 1..Len(chunks[k]) :
           site[chunks[k][i]].kind = "error"
    /\ \E k \in 1..Len(chunks) :
           Len(chunks[k]) >= 2 /\ site[chunks[k][1]].kind = "error"

----------------------------------------------------------------------------
(* C11: who writes the merged collection *)

\* the orders in which the futures in S can have been handed over
Orders(S) ==
    {o \in [1..Cardinality(S) -> S] : \A i, j \in 1..Cardinality(S) :
        i # j => o[i] # o[j]}

\* the results of the futures o[1], o[2], ... one after the other
RECURSIVE ResultsInOrder(_)
ResultsInOrder(o) ==
    IF o = <<>> THEN <<>>
    ELSE ResultsInOrder(SubSeq(o, 1, Len(o) - 1)) \o futures[o[Len(o)]].products

\* the merged collection holds the result of every future handed over, whole
\* and once
MergedOnce ==
    pc \notin {"start", "x_raw", "x_cleaned", "x_twice", "x_validated",
               "c_config", "c_chunked"} =>
        /\ \A k \in yielded : futures[k].state = "finished"
        /\ \E o \in Orders(yielded) : all_products = ResultsInOrder(o)

\* a step that touches the merged collection is the caller's: it takes the
\* result of one finished future not handed over before and changes no
\* task's list
CallerMerges ==
    (all_products' # all_products \/ yielded' # yielded) =>
        /\ pc = "scraping"
        /\ futures' = futures
        /\ \E k \in 1..Len(futures) :
               /\ k \notin yielded
               /\ futures[k].state = "finished"
               /\ yielded' = yielded \cup {k}
               /\ all_products' = all_products \o futures[k].products

\* a step of a worker changes the list of its own task only, and leaves the
\* merged collection alone
WorkerWritesOwnList ==
    (pc = "scraping" /\ futures' # futures) =>
        /\ all_products' = all_products
        /\ yielded' = yielded
        /\ \E k \in 1..Len(futures) :
               /\ futures[k].state # "finished"
               /\ \A j \in 1..Len(futures) : j # k => futures'[j] = futures[j]

\* C11: under every interleaving the merged collection all_products is
\* written only by the caller, one finished task's result at a time; a worker
\* writes only the list of its own task; and each completed chunk's records
\* are in the merged collection exactly once.
C11_SingleWriterMerge ==
    /\ []MergedOnce
    /\ [][CallerMerges /\ WorkerWritesOwnList]_vars

\* one chunk's records are merged while another worker still fills its list
C11_Witness ==
    /\ pc = "scraping"
    /\ all_products # <<>>
    /\ \E k \in 1..Len(futures) :
           /\ futures[k].state = "running"
           /\ futures[k].products # <<>>
           /\ k \notin yielded

----------------------------------------------------------------------------
(* C12: the loaders and the sink requirements *)

Called(loader) == \E i \in 1..Len(calls) : calls[i] = loader

\* a loader given a table that fails validate_dataframe answers False and
\* leaves its destination as it was
Refuses(loader, success, destination) ==
    (Called(loader) /\ ~validate_dataframe(df_transformed)) =>
        /\ success = FALSE
        /\ destination = Untouched

\* a destination that holds rows holds a table that passes validate_dataframe
HoldsValidTable(destination) ==
    (destination.written /\ destination.rows # <<>>) =>
        validate_dataframe(destination.rows)

\* C12: each of load_to_csv, load_to_google_sheets and load_to_postgres
\* checks the table with validate_dataframe before writing: no sink writes a
\* table that violates the sink requirements; given one, the loader returns
\* failure and leaves the destination unchanged.
C12_EverySinkValidates ==
    /\ Refuses("load_to_csv", csv_success, csv_file)
    /\ Refuses("load_to_google_sheets", sheets_success, sheet)
    /\ Refuses("load_to_postgres", postgres_success, db_table)
    /\ HoldsValidTable(csv_file)
    /\ HoldsValidTable(sheet)
    /\ HoldsValidTable(db_table)

----------------------------------------------------------------------------
(* C13: the status run_etl_pipeline returns *)

LoaderOrder == <<"load_to_csv", "load_to_google_sheets", "load_to_postgres">>

\* the loaders are called in the order CSV, spreadsheet, database
CalledInOrder ==
    /\ Len(calls) <= Len(LoaderOrder)
    /\ calls = SubSeq(LoaderOrder, 1, Len(calls))

AllLoadersSucceeded ==
    /\ calls = LoaderOrder
    /\ csv_success = TRUE
    /\ sheets_success = TRUE
    /\ postgres_success = TRUE

\* the run has a next step: at the transform stage, which has no condition
\* but its position, the cleaner returns a table; elsewhere a step is enabled
CanStep ==
    IF pc = "transform"
    THEN Len(transform_dataframe(df_raw)) \in 0..Len(df_raw)
    ELSE ENABLED (StartScrape \/ ScrapeNext \/ CheckRaw \/ LoadCsv
                  \/ LoadSheets \/ LoadPostgres \/ Summary)

\* C13: run_etl_pipeline never raises and always ends with a boolean status:
\* every state before the return has a next step and the value returned is
\* True or False; once the cleaned table is non-empty it calls all three
\* loaders in the order CSV, spreadsheet, database whatever the earlier ones
\* answered; and it returns True exactly when the harvest was non-empty, the
\* cleaned table was non-empty and all three loaders answered True.
C13_BooleanStatus ==
    /\ CalledInOrder
    /\ pc # "done" => result = "none" /\ CanStep
    /\ pc = "done" =>
           /\ result \in BOOLEAN
           /\ ~empty(df_transformed) => calls = LoaderOrder
           /\ result = TRUE <=>
                  /\ ~empty(df_raw)
                  /\ ~empty(df_transformed)
                  /\ AllLoadersSucceeded

\* the run ended after the first loader failed and the other two were still
\* called, the last with success
C13_Witness ==
    /\ pc = "done"
    /\ calls = LoaderOrder
    /\ csv_success = FALSE
    /\ postgres_success = TRUE
    /\ result = FALSE

====
